---------------------------- MODULE Spec2Model ----------------------------
(***************************************************************************)
(* A model of poc-1/app/network.py: the P2PNetwork class.                  *)
(*                                                                         *)
(* Every node runs one asyncio event loop, so the code between two awaits  *)
(* is one atomic step.  The awaits are the reads (_read_message), the      *)
(* sends (_send_message: write + drain), the answer callback and the wait  *)
(* on the aggregator's event.  A connection is a pair of endpoints, "i"    *)
(* (the side that called open_connection) and "a" (the side whose server   *)
(* accepted it); chan[c][s] is the queue of messages on their way to       *)
(* endpoint s of connection c.                                             *)
(***************************************************************************)
EXTENDS Integers, Sequences, FiniteSets, TLC

\* ----------------------------------------------------------------- bounds
MaxConn == 3
\* connections ever opened
MaxCalls == 1
\* calls of query_peers made where links fail or the run is followed to its end
MaxQid == 2
\* query ids: calls of query_peers made over a single sound link
MaxBoot == 2
\* entries of a bootstrap list whose every combination is tried
MaxFaults == 1
\* tampered lines and dropped links
MaxAnswers == 2
\* callback invocations recorded per node and query id

Node == {"A", "B", "C", "D"}
Side == {"i", "a"}
Conn == 1 .. MaxConn
Qid  == 1 .. MaxQid
NoConn == 0              \* peers.get(addr) is None
NoNode == "-"

\* The address a node derives at construction (network.py:94) is its label.
Address(n) == n

Other(s) == IF s = "i" THEN "a" ELSE "i"

\* ----------------------------------------------------------------- messages
\* One record shape for every line on the wire; unused fields hold fillers.
Msg(t, id, addr, payload) == [type |-> t, id |-> id, addr |-> addr, payload |-> payload]

VersionMsg(n)       == Msg("version", 0, Address(n), "-")
VerackMsg           == Msg("verack", 0, NoNode, "-")
QueryMsg(q, n, txt) == Msg("query", q, Address(n), txt)
ResponseMsg(q, n, r) == Msg("response", q, Address(n), r)
\* A line json.loads rejects: _read_message answers {} for it.
GarbageLine         == Msg("garbage", 0, NoNode, "-")
\* A well-formed line whose type no handler knows.
BogusMsg            == Msg("bogus", 0, NoNode, "-")
\* What _read_message returns for EOF, a read error or an undecodable line.
EmptyMsg            == Msg("none", 0, NoNode, "-")

\* _read_message's decoding of one line.
Decode(line) == IF line = GarbageLine THEN EmptyMsg ELSE line

VARIABLES
  bootstrap_peers,    \* [Node -> Seq]: the entries _run has not yet tried
  on_query,           \* [Node -> outcome of the node's answer callback]
  peers,              \* [Node -> [Node -> Conn \cup {NoConn}]]: self.peers
  processed_queries,  \* [Node -> SUBSET Qid]
  pending_queries,    \* [Node -> [Qid -> aggregator or NoAgg]]
  conn,               \* [Conn -> [ini, acc]]: the two nodes of a connection
  up,                 \* [Conn -> BOOLEAN]: the link carries data
  chan,               \* [Conn -> [Side -> Seq(Msg)]]: lines on their way to a side
  pc,                 \* [Conn -> [Side -> position of the task serving the side]]
  remote_addr,        \* [Conn -> [Side -> address captured from the version]]
  cur,                \* [Conn -> [Side -> the query whose callback is awaited]]
  call,               \* [Qid -> the activation record of one query_peers call]
  cbCount,            \* [Node -> [Qid -> Nat]]: callback invocations (history)
  respSent,           \* set of responses handed to a writer (history)
  deviated,           \* [Conn -> BOOLEAN]: the handshake met a fault (history)
  dupSeen,            \* set of <<node, qid>>: a duplicate query was discarded (history)
  everReg,            \* [Conn -> [Side -> BOOLEAN]]: the side registered its peer (history)
  fwdFailed,          \* set of <<node, qid>>: a forward of the query could not be sent (history)
  faults              \* tampered messages and dropped links so far

vars == <<bootstrap_peers, on_query, peers, processed_queries, pending_queries,
          conn, up, chan, pc, remote_addr, cur, call, cbCount, respSent,
          deviated, dupSeen, everReg, fwdFailed, faults>>

netVars   == <<conn, up, chan, pc, remote_addr, cur>>
ghostVars == <<cbCount, respSent, deviated, dupSeen, everReg, fwdFailed>>

NoAgg == [responses |-> <<>>, remaining |-> -1, event |-> FALSE, live |-> FALSE]
Agg(resp, rem, ev) == [responses |-> resp, remaining |-> rem, event |-> ev, live |-> TRUE]

IdleCall == [node |-> NoNode, pc |-> "idle", payload |-> "-", todo |-> {},
             npeers |-> 0, sendFailed |-> 0, sent |-> {}, replied |-> {},
             heard |-> <<>>,
             result |-> <<>>, timedOut |-> FALSE]

NoEndpoints == [ini |-> NoNode, acc |-> NoNode]

EndNode(c, s) == IF s = "i" THEN conn[c].ini ELSE conn[c].acc

Handshaking == {"wait_version", "wait_verack"}
Established == {"reader", "callback"}
Finished    == {"closed", "failed"}


\* ----------------------------------------------------------------- the wire
\* A faulty read: the line that arrived last is returned first.
ReadMessageLast(c, s) ==
  (IF chan[c][s] # <<>>
   THEN {<<chan[c][s][Len(chan[c][s])], SubSeq(chan[c][s], 1, Len(chan[c][s]) - 1)>>}
   ELSE {})
  \cup (IF ~up[c] THEN {<<chan[c][s][1], <<>>>>} ELSE {})

\* _read_message (network.py:390-401) at endpoint s of connection c: the set
\* of <<message, rest of the queue>> it can return.  It returns the next line
\* decoded; once the link is down it can also meet EOF or a reset, and then
\* answers {} whatever was still queued.
ReadMessage(c, s) ==
  (IF chan[c][s] # <<>> THEN {<<Decode(Head(chan[c][s])), Tail(chan[c][s])>>} ELSE {})
  \cup (IF ~up[c] THEN {<<EmptyMsg, <<>>>>} ELSE {})

\* _send_message (network.py:384-388) from endpoint s of connection c: on a
\* live link the line is queued for the other side; on a dead link drain()
\* raises ("fail") or the line is silently lost ("lost").
SendOutcomes(c) == IF up[c] THEN {"ok"} ELSE {"fail", "lost"}

\* chan after endpoint s of c consumed its queue down to rest and wrote the
\* lines out towards the other side.
ChanAfter(c, s, rest, out) ==
  [chan EXCEPT ![c] = [t \in Side |->
      IF t = s THEN rest
      ELSE IF up[c] THEN chan[c][t] \o out ELSE chan[c][t]]]

\* The endpoint of connection d that node n holds the writer of.
SideOf(d, n) == IF conn[d].ini = n THEN "i" ELSE "a"

\* The writers registered at node n: list(self.peers.items()) as connections.
Writers(n) == {peers[n][a] : a \in Node} \ {NoConn}

\* Some side of c is still inside the handshake.
InHandshake(c) == \E s \in Side : pc[c][s] \in Handshaking

\* ----------------------------------------------------------------- _run
\* A failed handshake is taken to end _run: no later entry is tried.
RunBusyStuck(n) ==
  \E c \in Conn : conn[c].ini = n /\ pc[c]["i"] \in Handshaking \cup Finished

\* _run (network.py:186-198) is one task: it awaits each outgoing handshake
\* before it turns to the next bootstrap entry.
RunBusy(n) == \E c \in Conn : conn[c].ini = n /\ pc[c]["i"] \in Handshaking

FreeConn == {c \in Conn : conn[c] = NoEndpoints /\ \A d \in Conn : d < c => conn[d] # NoEndpoints}

\* A malformed bootstrap entry: split/int raise ValueError, the entry is skipped.
SkipBootstrap(n) ==
  /\ ~RunBusy(n)
  /\ bootstrap_peers[n] # <<>>
  /\ Head(bootstrap_peers[n]) \notin Node
  /\ bootstrap_peers' = [bootstrap_peers EXCEPT ![n] = Tail(@)]
  /\ UNCHANGED <<on_query, peers, processed_queries, pending_queries, netVars,
                 call, ghostVars, faults>>

\* open_connection raises (nobody listens): logged, the entry is skipped.
ConnectRefused(n) ==
  /\ ~RunBusy(n)
  /\ bootstrap_peers[n] # <<>>
  /\ Head(bootstrap_peers[n]) \in Node
  /\ bootstrap_peers' = [bootstrap_peers EXCEPT ![n] = Tail(@)]
  /\ UNCHANGED <<on_query, peers, processed_queries, pending_queries, netVars,
                 call, ghostVars, faults>>

\* open_connection succeeds and _outgoing_handshake sends our version
\* (network.py:195-196, 239-240); the peer's server starts _handle_incoming.
OpenConnection(n) ==
  /\ ~RunBusy(n)
  /\ bootstrap_peers[n] # <<>>
  /\ Head(bootstrap_peers[n]) \in Node
  /\ \E c \in FreeConn :
       /\ conn' = [conn EXCEPT ![c] = [ini |-> n, acc |-> Head(bootstrap_peers[n])]]
       /\ up'   = [up EXCEPT ![c] = TRUE]
       /\ chan' = [chan EXCEPT ![c]["a"] = <<VersionMsg(n)>>]
       /\ pc'   = [pc EXCEPT ![c] = [i |-> "wait_version", a |-> "wait_version"]]
  /\ bootstrap_peers' = [bootstrap_peers EXCEPT ![n] = Tail(@)]
  /\ UNCHANGED <<on_query, peers, processed_queries, pending_queries,
                 remote_addr, cur, call, ghostVars, faults>>

\* ----------------------------------------------------------------- handshake
\* A faulty registration: the entry is keyed by the node's own address.
RegisterOwn(n, addr, c) == [peers EXCEPT ![n][Address(n)] = c]

\* peers[remote] = writer (network.py:258, 280)
Register(n, addr, c) == [peers EXCEPT ![n][addr] = c]

\* _outgoing_handshake, network.py:242-250: read the peer's version, answer verack.
OutgoingVersion(c) ==
  /\ pc[c]["i"] = "wait_version"
  /\ \E r \in ReadMessage(c, "i") :
       IF r[1].type # "version"
       THEN \* writer.close(); return
            /\ pc' = [pc EXCEPT ![c]["i"] = "closed"]
            /\ up' = [up EXCEPT ![c] = FALSE]
            /\ chan' = [chan EXCEPT ![c]["i"] = <<>>]
            /\ UNCHANGED remote_addr
       ELSE /\ remote_addr' = [remote_addr EXCEPT ![c]["i"] = r[1].addr]
            /\ \E o \in SendOutcomes(c) :
                 /\ pc' = [pc EXCEPT ![c]["i"] = IF o = "fail" THEN "failed" ELSE "wait_verack"]
                 /\ chan' = ChanAfter(c, "i", r[2], <<VerackMsg>>)
            /\ UNCHANGED up
  /\ UNCHANGED <<bootstrap_peers, on_query, peers, processed_queries,
                 pending_queries, conn, cur, call, ghostVars, faults>>

\* _outgoing_handshake, network.py:251-261: read the verack, register, start the reader.
OutgoingVerack(c) ==
  /\ pc[c]["i"] = "wait_verack"
  /\ \E r \in ReadMessage(c, "i") :
       IF r[1].type # "verack"
       THEN /\ pc' = [pc EXCEPT ![c]["i"] = "closed"]
            /\ up' = [up EXCEPT ![c] = FALSE]
            /\ chan' = [chan EXCEPT ![c]["i"] = <<>>]
            /\ UNCHANGED peers
       ELSE /\ peers' = Register(conn[c].ini, remote_addr[c]["i"], c)
            /\ pc' = [pc EXCEPT ![c]["i"] = "reader"]
            /\ chan' = [chan EXCEPT ![c]["i"] = r[2]]
            /\ UNCHANGED up
  /\ everReg' = [everReg EXCEPT ![c]["i"] = pc'[c]["i"] = "reader"]
  /\ UNCHANGED <<bootstrap_peers, on_query, processed_queries, pending_queries,
                 conn, remote_addr, cur, call, cbCount, respSent, deviated,
                 dupSeen, fwdFailed, faults>>

\* _incoming_handshake, network.py:266-272 (and _handle_incoming, 287-290):
\* read the peer's version, answer with ours.
IncomingVersion(c) ==
  /\ pc[c]["a"] = "wait_version"
  /\ \E r \in ReadMessage(c, "a") :
       IF r[1].type # "version"
       THEN \* return None; _handle_incoming closes the writer
            /\ pc' = [pc EXCEPT ![c]["a"] = "closed"]
            /\ up' = [up EXCEPT ![c] = FALSE]
            /\ chan' = [chan EXCEPT ![c]["a"] = <<>>]
            /\ UNCHANGED remote_addr
       ELSE /\ remote_addr' = [remote_addr EXCEPT ![c]["a"] = r[1].addr]
            /\ \E o \in SendOutcomes(c) :
                 /\ pc' = [pc EXCEPT ![c]["a"] = IF o = "fail" THEN "failed" ELSE "wait_verack"]
                 /\ chan' = ChanAfter(c, "a", r[2], <<VersionMsg(conn[c].acc)>>)
            /\ UNCHANGED up
  /\ UNCHANGED <<bootstrap_peers, on_query, peers, processed_queries,
                 pending_queries, conn, cur, call, ghostVars, faults>>

\* _incoming_handshake, network.py:274-282: read the verack, answer verack,
\* register; _handle_incoming then runs the reader (292).
IncomingVerack(c) ==
  /\ pc[c]["a"] = "wait_verack"
  /\ \E r \in ReadMessage(c, "a") :
       IF r[1].type # "verack"
       THEN /\ pc' = [pc EXCEPT ![c]["a"] = "closed"]
            /\ up' = [up EXCEPT ![c] = FALSE]
            /\ chan' = [chan EXCEPT ![c]["a"] = <<>>]
            /\ UNCHANGED peers
       ELSE \E o \in SendOutcomes(c) :
            /\ chan' = ChanAfter(c, "a", r[2], <<VerackMsg>>)
            /\ IF o = "fail"
               THEN /\ pc' = [pc EXCEPT ![c]["a"] = "failed"]
                    /\ UNCHANGED peers
               ELSE /\ peers' = Register(conn[c].acc, remote_addr[c]["a"], c)
                    /\ pc' = [pc EXCEPT ![c]["a"] = "reader"]
            /\ UNCHANGED up
  /\ everReg' = [everReg EXCEPT ![c]["a"] = pc'[c]["a"] = "reader"]
  /\ UNCHANGED <<bootstrap_peers, on_query, processed_queries, pending_queries,
                 conn, remote_addr, cur, call, cbCount, respSent, deviated,
                 dupSeen, fwdFailed, faults>>

\* ----------------------------------------------------------------- dispatch
\* A faulty membership test: no query id is ever recognised.
AlreadyProcessedNever(n, qid) == FALSE

\* network.py:335: if qid in self.processed_queries: return
AlreadyProcessed(n, qid) == qid \in processed_queries[n]

\* A faulty walk: the sender's writer is not left out.
ForwardTargetsAll(n, sender) == Writers(n)

\* network.py:339-341: every registered writer except the sender's key.
ForwardTargets(n, sender) ==
  {peers[n][a] : a \in Node \ {sender}} \ {NoConn}

\* A faulty reply: the response goes to every registered writer.
ResponseTargetsAll(n, sender) == Writers(n)

\* A faulty reply: the writer is looked up under the node's own address.
ResponseTargetsOwn(n, sender) ==
  IF peers[n][Address(n)] # NoConn THEN {peers[n][Address(n)]} ELSE {}

\* network.py:362-363: writer = self.peers.get(sender_peer)
ResponseTargets(n, sender) ==
  IF sender \in Node /\ peers[n][sender] # NoConn THEN {peers[n][sender]} ELSE {}

\* A faulty wrapper: what the callback raised stands for its value.
CallbackResultRaw(n) == on_query[n]

\* network.py:347-353: the callback's value, or {'error': str(exc)} when it raises.
CallbackResult(n) == IF on_query[n] = "raise" THEN "error" ELSE on_query[n]

\* A faulty count: the event is set while one reply is still owed.
RecordResponseEarly(agg, payload) ==
  Agg(Append(agg.responses, payload), agg.remaining - 1,
      agg.event \/ agg.remaining - 1 <= 1)

\* A faulty count: a response is counted twice.
RecordResponseTwice(agg, payload) ==
  Agg(Append(agg.responses, payload), agg.remaining - 2,
      agg.event \/ agg.remaining - 2 <= 0)

\* network.py:379-382: append the payload, count it, set the event at zero.
RecordResponse(agg, payload) ==
  Agg(Append(agg.responses, payload), agg.remaining - 1,
      agg.event \/ agg.remaining - 1 <= 0)

\* A faulty walk: the first failed send ends it, and here no line is written
\* once a connection of ds is down.
ChanSendAllAbort(n, ds, m, c, s, rest) ==
  [d \in Conn |-> [t \in Side |->
      LET q == IF d = c /\ t = s THEN rest ELSE chan[d][t]
      IN IF d \in ds /\ (\A e \in ds : up[e]) /\ t = Other(SideOf(d, n))
         THEN Append(q, m) ELSE q]]

\* chan after node n wrote line m to each connection of ds (a failed send is
\* logged and skipped: network.py:342-345, 364-367) and endpoint s of c
\* consumed its queue down to rest.
ChanSendAll(n, ds, m, c, s, rest) ==
  [d \in Conn |-> [t \in Side |->
      LET q == IF d = c /\ t = s THEN rest ELSE chan[d][t]
      IN IF d \in ds /\ up[d] /\ t = Other(SideOf(d, n)) THEN Append(q, m) ELSE q]]

\* A faulty clean-up: the registry key stays.
RemovePeerNot(n, peer_id) == peers

\* _peer_reader's finally (network.py:304-309): drop the registry key, close.
RemovePeer(n, peer_id) ==
  IF peer_id \in Node /\ peers[n][peer_id] # NoConn
  THEN [peers EXCEPT ![n][peer_id] = NoConn] ELSE peers

\* A payload that is missing or is not a string (a number, a list, null).
NonString == "<not-a-string>"

\* A faulty validation: only the id is looked at.
ValidQueryIdOnly(msg) == msg.id \in Qid

\* network.py:332: isinstance(qid, str) and isinstance(query, str).  The
\* ids that are strings are those of Qid; the filler 0 is a missing or
\* non-string id.
ValidQuery(msg) == msg.id \in Qid /\ msg.payload # NonString

\* _handle_query (network.py:329-345) up to the callback's invocation.
HandleQuery(c, s, msg, rest) ==
  LET n == EndNode(c, s)
      sender == remote_addr[c][s]
  IN IF ~ValidQuery(msg)
     THEN /\ chan' = [chan EXCEPT ![c][s] = rest]
          /\ UNCHANGED <<peers, processed_queries, pending_queries, pc, cur,
                         call, up, ghostVars>>
     ELSE IF AlreadyProcessed(n, msg.id)
     THEN /\ chan' = [chan EXCEPT ![c][s] = rest]
          /\ dupSeen' = dupSeen \cup {<<n, msg.id>>}
          /\ UNCHANGED <<peers, processed_queries, pending_queries, pc, cur,
                         call, up, cbCount, respSent, deviated, everReg, fwdFailed>>
     ELSE /\ cbCount[n][msg.id] < MaxAnswers
          /\ processed_queries' = [processed_queries EXCEPT ![n] = @ \cup {msg.id}]
          /\ chan' = ChanSendAll(n, ForwardTargets(n, sender), msg, c, s, rest)
          /\ cbCount' = [cbCount EXCEPT ![n][msg.id] = @ + 1]
          /\ pc' = [pc EXCEPT ![c][s] = "callback"]
          /\ cur' = [cur EXCEPT ![c][s] = msg]
          /\ fwdFailed' = IF \E d \in ForwardTargets(n, sender) : ~up[d]
                          THEN fwdFailed \cup {<<n, msg.id>>} ELSE fwdFailed
          /\ UNCHANGED <<peers, pending_queries, call, up, respSent, deviated,
                         dupSeen, everReg>>

\* A faulty lookup: every id is taken to have an entry.
HasPendingAlways(n, qid) == TRUE

\* network.py:374-375: agg = self.pending_queries.get(qid) is not None
HasPending(n, qid) == pending_queries[n][qid].live

\* _handle_response (network.py:371-382).
HandleResponse(c, s, msg, rest) ==
  LET n == EndNode(c, s)
      agg == pending_queries[n][msg.id]
  IN /\ chan' = [chan EXCEPT ![c][s] = rest]
     /\ IF ~HasPending(n, msg.id)
        THEN UNCHANGED <<pending_queries, call>>
        ELSE /\ pending_queries' = [pending_queries EXCEPT
                                       ![n][msg.id] = RecordResponse(agg, msg.payload)]
             /\ call' = [call EXCEPT ![msg.id].heard = Append(@, msg.payload),
                                     ![msg.id].replied = @ \cup {c}]
     /\ UNCHANGED <<peers, processed_queries, pc, cur, up, ghostVars>>

\* One turn of _peer_reader's loop (network.py:296-309) with _dispatch_message
\* (314-319): read a line; stop on {}; else dispatch by type.
PeerReader(c, s) ==
  /\ pc[c][s] = "reader"
  /\ \E r \in ReadMessage(c, s) :
       CASE r[1] = EmptyMsg ->
              /\ peers' = RemovePeer(EndNode(c, s), remote_addr[c][s])
              /\ pc' = [pc EXCEPT ![c][s] = "closed"]
              /\ up' = [up EXCEPT ![c] = FALSE]
              /\ chan' = [chan EXCEPT ![c][s] = <<>>]
              /\ UNCHANGED <<processed_queries, pending_queries, cur, call, ghostVars>>
         [] r[1].type = "query" -> HandleQuery(c, s, r[1], r[2])
         [] r[1].type = "response" -> HandleResponse(c, s, r[1], r[2])
         [] OTHER ->
              /\ chan' = [chan EXCEPT ![c][s] = r[2]]
              /\ UNCHANGED <<peers, processed_queries, pending_queries, pc, cur,
                             call, up, ghostVars>>
  /\ UNCHANGED <<bootstrap_peers, on_query, conn, remote_addr, faults>>

\* _handle_query after the callback (network.py:347-367): build the response
\* and send it to the writer now registered under sender_peer.
CallbackReturns(c, s) ==
  /\ pc[c][s] = "callback"
  /\ LET n == EndNode(c, s)
         sender == remote_addr[c][s]
         resp == ResponseMsg(cur[c][s].id, n, CallbackResult(n))
         ds == ResponseTargets(n, sender)
     IN /\ chan' = ChanSendAll(n, ds, resp, c, s, chan[c][s])
        /\ respSent' = respSent \cup
              {[node |-> n, conn |-> d, id |-> cur[c][s].id, from |-> c] : d \in ds}
  /\ pc' = [pc EXCEPT ![c][s] = "reader"]
  /\ cur' = [cur EXCEPT ![c][s] = EmptyMsg]
  /\ UNCHANGED <<bootstrap_peers, on_query, peers, processed_queries,
                 pending_queries, conn, up, remote_addr, call, cbCount, deviated,
                 dupSeen, everReg, fwdFailed, faults>>

\* ----------------------------------------------------------------- query_peers
\* uuid.uuid4() (network.py:143): an id no earlier call used.
FreshQid == {q \in Qid : call[q].pc = "idle" /\ \A p \in Qid : p < q => call[p].pc # "idle"}

\* A faulty guard: the empty registry is not noticed.
NoPeersNever(n) == FALSE

\* network.py:141: if not self.peers
NoPeers(n) == Writers(n) = {}

\* network.py:150: 'remaining': len(self.peers)
InitialRemaining(n) == Cardinality(Writers(n))

\* A faulty return: the entry stays in the table.
PopPendingNot(n, q) == pending_queries

\* network.py:170-171: pop the entry, return a snapshot of the responses.
PopPending(n, q) == [pending_queries EXCEPT ![n][q] = NoAgg]

\* A faulty start: the fresh id is not marked.
OwnProcessedNot(n, q) == processed_queries

\* network.py:146: self.processed_queries.add(qid)
OwnProcessed(n, q) == [processed_queries EXCEPT ![n] = @ \cup {q}]

\* query_peers up to its first await (network.py:141-157).
QueryPeers(n, txt) ==
  /\ \E q \in FreshQid :
       IF NoPeers(n)
       THEN /\ call' = [call EXCEPT ![q] = [IdleCall EXCEPT !.node = n,
                                              !.pc = "done", !.payload = txt]]
            /\ UNCHANGED <<processed_queries, pending_queries>>
       ELSE /\ processed_queries' = OwnProcessed(n, q)
            /\ pending_queries' = [pending_queries EXCEPT
                                      ![n][q] = Agg(<<>>, InitialRemaining(n), FALSE)]
            /\ call' = [call EXCEPT ![q] = [IdleCall EXCEPT !.node = n,
                                              !.pc = "sending", !.payload = txt,
                                              !.todo = Writers(n),
                                              !.npeers = InitialRemaining(n)]]
  /\ UNCHANGED <<bootstrap_peers, on_query, peers, netVars, ghostVars, faults>>

\* One turn of the send loop (network.py:157-163); after the last one the
\* call waits on the event (166).
QuerySend(q) ==
  /\ call[q].pc = "sending"
  /\ LET n == call[q].node
         agg == pending_queries[n][q]
     IN \E d \in call[q].todo : \E o \in SendOutcomes(d) :
          /\ chan' = ChanSendAll(n, {d}, QueryMsg(q, n, call[q].payload), d,
                                 SideOf(d, n), chan[d][SideOf(d, n)])
          /\ pending_queries' =
               IF o = "fail"
               THEN [pending_queries EXCEPT ![n][q].remaining = @ - 1]
               ELSE pending_queries
          /\ call' = [call EXCEPT
               ![q].todo = @ \ {d},
               ![q].sendFailed = IF o = "fail" THEN @ + 1 ELSE @,
               ![q].sent = IF o = "ok" THEN @ \cup {d} ELSE @,
               ![q].pc = IF call[q].todo = {d} THEN "waiting" ELSE "sending"]
  /\ UNCHANGED <<bootstrap_peers, on_query, peers, processed_queries, conn, up,
                 pc, remote_addr, cur, ghostVars, faults>>

\* wait_for returns because the event is set (network.py:166, 170-171).
QueryDone(q) ==
  /\ call[q].pc = "waiting"
  /\ pending_queries[call[q].node][q].event
  /\ call' = [call EXCEPT ![q].pc = "done",
                          ![q].result = pending_queries[call[q].node][q].responses]
  /\ pending_queries' = PopPending(call[q].node, q)
  /\ UNCHANGED <<bootstrap_peers, on_query, peers, processed_queries, netVars,
                 ghostVars, faults>>

\* wait_for raises TimeoutError (network.py:167-171).
QueryTimeout(q) ==
  /\ call[q].pc = "waiting"
  /\ ~pending_queries[call[q].node][q].event
  /\ call' = [call EXCEPT ![q].pc = "done", ![q].timedOut = TRUE,
                          ![q].result = pending_queries[call[q].node][q].responses]
  /\ pending_queries' = PopPending(call[q].node, q)
  /\ UNCHANGED <<bootstrap_peers, on_query, peers, processed_queries, netVars,
                 ghostVars, faults>>

\* The calls of query_peers made so far.
CallsMade == Cardinality({q \in Qid : call[q].pc # "idle"})

\* query_peers called while fewer than MaxCalls calls have been made.
FirstQueryPeers(n, txt) == CallsMade < MaxCalls /\ QueryPeers(n, txt)

\* ----------------------------------------------------------------- faults
\* The link of c goes down (connection reset, peer unreachable).
Drop(c) ==
  /\ faults < MaxFaults
  /\ conn[c] # NoEndpoints
  /\ up[c]
  /\ up' = [up EXCEPT ![c] = FALSE]
  /\ deviated' = [deviated EXCEPT ![c] = @ \/ InHandshake(c)]
  /\ faults' = faults + 1
  /\ UNCHANGED <<bootstrap_peers, on_query, peers, processed_queries,
                 pending_queries, conn, chan, pc, remote_addr, cur, call,
                 cbCount, respSent, dupSeen, everReg, fwdFailed>>

\* The next line for endpoint s of c arrives undecodable, or as a message of
\* a type the receiver does not expect.
Tamper(c, s) ==
  /\ faults < MaxFaults
  /\ chan[c][s] # <<>>
  /\ \E m \in {GarbageLine, BogusMsg} :
       /\ Head(chan[c][s]) # m
       /\ chan' = [chan EXCEPT ![c][s] = <<m>> \o Tail(@)]
  /\ deviated' = [deviated EXCEPT ![c] = @ \/ InHandshake(c)]
  /\ faults' = faults + 1
  /\ UNCHANGED <<bootstrap_peers, on_query, peers, processed_queries,
                 pending_queries, conn, up, pc, remote_addr, cur, call,
                 cbCount, respSent, dupSeen, everReg, fwdFailed>>

\* The query that is next for endpoint s of c arrives with its id, or its
\* payload, missing or not a string.
TamperQuery(c, s) ==
  /\ faults < MaxFaults
  /\ chan[c][s] # <<>>
  /\ Head(chan[c][s]).type = "query"
  /\ \E m \in {[Head(chan[c][s]) EXCEPT !.id = 0],
                [Head(chan[c][s]) EXCEPT !.payload = NonString]} :
       /\ Head(chan[c][s]) # m
       /\ chan' = [chan EXCEPT ![c][s] = <<m>> \o Tail(@)]
  /\ faults' = faults + 1
  /\ UNCHANGED <<bootstrap_peers, on_query, peers, processed_queries,
                 pending_queries, conn, up, pc, remote_addr, cur, call,
                 ghostVars>>

\* ----------------------------------------------------------------- initial states
\* The state after construction (network.py:87-111) with bootstrap list b
\* and callbacks f.
Constructed(b, f) ==
  /\ bootstrap_peers = b
  /\ on_query = f
  /\ peers = [n \in Node |-> [a \in Node |-> NoConn]]
  /\ processed_queries = [n \in Node |-> {}]
  /\ pending_queries = [n \in Node |-> [q \in Qid |-> NoAgg]]
  /\ conn = [c \in Conn |-> NoEndpoints]
  /\ up = [c \in Conn |-> FALSE]
  /\ chan = [c \in Conn |-> [s \in Side |-> <<>>]]
  /\ pc = [c \in Conn |-> [s \in Side |-> "none"]]
  /\ remote_addr = [c \in Conn |-> [s \in Side |-> NoNode]]
  /\ cur = [c \in Conn |-> [s \in Side |-> EmptyMsg]]
  /\ call = [q \in Qid |-> IdleCall]
  /\ cbCount = [n \in Node |-> [q \in Qid |-> 0]]
  /\ respSent = {}
  /\ deviated = [c \in Conn |-> FALSE]
  /\ dupSeen = {}
  /\ everReg = [c \in Conn |-> [s \in Side |-> FALSE]]
  /\ fwdFailed = {}
  /\ faults = 0

\* A state in which the connections of links (a sequence of [ini, acc]
\* records) have completed their handshakes, in that order, and nothing else
\* has happened: every node has registered the other end of each of its
\* connections and runs a reader on it.
LinkAt(links, c) == IF c <= Len(links) THEN links[c] ELSE NoEndpoints

PeerConn(links, n, a) ==
  LET cs == {c \in 1 .. Len(links) :
               \/ links[c].ini = n /\ links[c].acc = a
               \/ links[c].acc = n /\ links[c].ini = a}
  IN IF cs = {} THEN NoConn ELSE CHOOSE c \in cs : \A d \in cs : d <= c

Linked(links, f) ==
  /\ bootstrap_peers = [n \in Node |-> <<>>]
  /\ on_query = f
  /\ peers = [n \in Node |-> [a \in Node |-> PeerConn(links, n, a)]]
  /\ processed_queries = [n \in Node |-> {}]
  /\ pending_queries = [n \in Node |-> [q \in Qid |-> NoAgg]]
  /\ conn = [c \in Conn |-> LinkAt(links, c)]
  /\ up = [c \in Conn |-> c <= Len(links)]
  /\ chan = [c \in Conn |-> [s \in Side |-> <<>>]]
  /\ pc = [c \in Conn |-> [s \in Side |-> IF c <= Len(links) THEN "reader" ELSE "none"]]
  /\ remote_addr = [c \in Conn |-> [s \in Side |->
        IF c <= Len(links)
        THEN (IF s = "i" THEN Address(links[c].acc) ELSE Address(links[c].ini))
        ELSE NoNode]]
  /\ cur = [c \in Conn |-> [s \in Side |-> EmptyMsg]]
  /\ call = [q \in Qid |-> IdleCall]
  /\ cbCount = [n \in Node |-> [q \in Qid |-> 0]]
  /\ respSent = {}
  /\ deviated = [c \in Conn |-> FALSE]
  /\ dupSeen = {}
  /\ everReg = [c \in Conn |-> [s \in Side |-> c <= Len(links)]]
  /\ fwdFailed = {}
  /\ faults = 0

\* ----------------------------------------------------------------- specifications
Payload == {"ping"}

AllPong == [n \in Node |-> "pong"]

\* Bootstrap lists: B and C join through A, and C also dials B, which closes
\* the cycle A-B-C.
MeshBoot == [n \in Node |-> CASE n = "B" -> <<"A">>
                               [] n = "C" -> <<"A", "B">>
                               [] OTHER -> <<>>]

\* The connections MeshBoot leads to, in the order they were opened.
MeshLinks == <<[ini |-> "B", acc |-> "A"], [ini |-> "C", acc |-> "A"],
               [ini |-> "C", acc |-> "B"]>>

\* B, C and D each dial A: A has three peers that do not know each other.
StarLinks == <<[ini |-> "B", acc |-> "A"], [ini |-> "C", acc |-> "A"],
               [ini |-> "D", acc |-> "A"]>>

\* A and B dial each other: two connections under one address, the later
\* handshake holding the registry key on both sides.
TwinLinks == <<[ini |-> "A", acc |-> "B"], [ini |-> "B", acc |-> "A"]>>

Topology == {MeshLinks, StarLinks, TwinLinks}

\* The messaging layer over established connections, with link failures and
\* tampered lines.
Init == \E links \in Topology : Linked(links, AllPong)

Next ==
  \/ \E c \in Conn, s \in Side : PeerReader(c, s)
  \/ \E c \in Conn, s \in Side : CallbackReturns(c, s)
  \/ \E n \in Node, txt \in Payload : FirstQueryPeers(n, txt)
  \/ \E q \in Qid : QuerySend(q)
  \/ \E q \in Qid : QueryDone(q)
  \/ \E q \in Qid : QueryTimeout(q)
  \/ \E c \in Conn : Drop(c)
  \/ \E c \in Conn, s \in Side : Tamper(c, s)

Spec == Init /\ [][Next]_vars

\* Start-up and handshakes from construction, with link failures and
\* tampered lines; no query is broadcast.
TwinBoot == [n \in Node |-> CASE n = "A" -> <<"B">>
                               [] n = "B" -> <<"A">>
                               [] OTHER -> <<>>]

BadEntryBoot == [n \in Node |-> CASE n = "B" -> <<"host", "A", "A">>
                                   [] OTHER -> <<>>]

StarBoot == [n \in Node |-> IF n = "A" THEN <<>> ELSE <<"A">>]

BootConfig == {MeshBoot, StarBoot, TwinBoot, BadEntryBoot}

InitHS == \E b \in BootConfig : Constructed(b, AllPong)

NextHS ==
  \/ \E n \in Node : SkipBootstrap(n)
  \/ \E n \in Node : ConnectRefused(n)
  \/ \E n \in Node : OpenConnection(n)
  \/ \E c \in Conn : OutgoingVersion(c)
  \/ \E c \in Conn : OutgoingVerack(c)
  \/ \E c \in Conn : IncomingVersion(c)
  \/ \E c \in Conn : IncomingVerack(c)
  \/ \E c \in Conn, s \in Side : PeerReader(c, s)
  \/ \E c \in Conn : Drop(c)
  \/ \E c \in Conn, s \in Side : Tamper(c, s)

SpecHS == InitHS /\ [][NextHS]_vars

\* A broadcast by A over the full mesh A-B-C: no fault; every task that can
\* run is eventually run by its node's event loop.
InitMesh == Linked(MeshLinks, AllPong)

NextMesh ==
  \/ \E c \in Conn, s \in Side : PeerReader(c, s)
  \/ \E c \in Conn, s \in Side : CallbackReturns(c, s)
  \/ \E txt \in Payload : FirstQueryPeers("A", txt)
  \/ \E q \in Qid : QuerySend(q)
  \/ \E q \in Qid : QueryDone(q)
  \/ \E q \in Qid : QueryTimeout(q)

FairMesh ==
  /\ \A c \in Conn, s \in Side : WF_vars(PeerReader(c, s))
  /\ \A c \in Conn, s \in Side : WF_vars(CallbackReturns(c, s))
  /\ \A q \in Qid : WF_vars(QuerySend(q))
  /\ \A q \in Qid : WF_vars(QueryDone(q))

SpecMesh == InitMesh /\ [][NextMesh]_vars /\ FairMesh

\* Two nodes from construction: A has no bootstrap entry, B dials A; no
\* fault.  Either node may broadcast one of two texts.
PairPayload == {"ping", "hello"}

PairBoot == [n \in Node |-> IF n = "B" THEN <<"A">> ELSE <<>>]

\* B's callback is a stub that returns "pong", or one that raises.
PairCallbacks == {AllPong, [AllPong EXCEPT !["B"] = "raise"]}

InitPair == \E f \in PairCallbacks : Constructed(PairBoot, f)

NextPair ==
  \/ \E n \in Node : OpenConnection(n)
  \/ \E c \in Conn : OutgoingVersion(c)
  \/ \E c \in Conn : OutgoingVerack(c)
  \/ \E c \in Conn : IncomingVersion(c)
  \/ \E c \in Conn : IncomingVerack(c)
  \/ \E c \in Conn, s \in Side : PeerReader(c, s)
  \/ \E c \in Conn, s \in Side : CallbackReturns(c, s)
  \/ \E n \in {"A", "B"}, txt \in PairPayload : FirstQueryPeers(n, txt)
  \/ \E q \in Qid : QuerySend(q)
  \/ \E q \in Qid : QueryDone(q)
  \/ \E q \in Qid : QueryTimeout(q)

FairPair ==
  /\ \A n \in Node : WF_vars(OpenConnection(n))
  /\ \A c \in Conn : WF_vars(OutgoingVersion(c)) /\ WF_vars(OutgoingVerack(c))
  /\ \A c \in Conn : WF_vars(IncomingVersion(c)) /\ WF_vars(IncomingVerack(c))
  /\ \A c \in Conn, s \in Side : WF_vars(PeerReader(c, s))
  /\ \A c \in Conn, s \in Side : WF_vars(CallbackReturns(c, s))
  /\ \A q \in Qid : WF_vars(QuerySend(q))
  /\ \A q \in Qid : WF_vars(QueryDone(q))

SpecPair == InitPair /\ [][NextPair]_vars /\ FairPair

\* The established states above are reached by the handshakes.
NextBoot ==
  \/ \E n \in Node : OpenConnection(n)
  \/ \E c \in Conn : OutgoingVersion(c)
  \/ \E c \in Conn : OutgoingVerack(c)
  \/ \E c \in Conn : IncomingVersion(c)
  \/ \E c \in Conn : IncomingVerack(c)

SpecBoot == InitHS /\ [][NextBoot]_vars

MeshReached == Linked(MeshLinks, AllPong)
StarReached == Linked(StarLinks, AllPong)
TwinReached == Linked(TwinLinks, AllPong)

\* The messaging layer over the full mesh when callbacks raise: B's callback
\* raises, or every node's does.
RaiseCallbacks == {[AllPong EXCEPT !["B"] = "raise"], [n \in Node |-> "raise"]}

InitRaise == \E f \in RaiseCallbacks : Linked(MeshLinks, f)

SpecRaise == InitRaise /\ [][Next]_vars

\* Start-up of B under every bootstrap list of up to MaxBoot entries, each
\* malformed ("host", which has no port) or naming A, while C dials B; links
\* fail and lines are tampered with.  _run and every handshake and reader
\* task that can run is eventually run by its node's event loop.
BootEntry == {"host", "A"}

StartLists == UNION {[1 .. k -> BootEntry] : k \in 0 .. MaxBoot}

StartConfig == {[n \in Node |-> CASE n = "B" -> b
                                   [] n = "C" -> <<"B">>
                                   [] OTHER -> <<>>] : b \in StartLists}

InitStart == \E b \in StartConfig : Constructed(b, AllPong)

\* One turn of _run's loop over the bootstrap entries (network.py:186-198).
RunStep(n) == SkipBootstrap(n) \/ ConnectRefused(n) \/ OpenConnection(n)

FairStart ==
  /\ \A n \in Node : WF_vars(RunStep(n))
  /\ \A c \in Conn : WF_vars(OutgoingVersion(c)) /\ WF_vars(OutgoingVerack(c))
  /\ \A c \in Conn : WF_vars(IncomingVersion(c)) /\ WF_vars(IncomingVerack(c))
  /\ \A c \in Conn, s \in Side : WF_vars(PeerReader(c, s))

SpecStart == InitStart /\ [][NextHS]_vars /\ FairStart

\* B and C each hold one sound connection to A; each of the three may call
\* query_peers, MaxQid calls in all, so that queries and responses queue up
\* behind each other on a connection.
FanLinks == <<[ini |-> "B", acc |-> "A"], [ini |-> "C", acc |-> "A"]>>

InitOrder == Linked(FanLinks, AllPong)

NextOrder ==
  \/ \E c \in Conn, s \in Side : PeerReader(c, s)
  \/ \E c \in Conn, s \in Side : CallbackReturns(c, s)
  \/ \E n \in {"A", "B", "C"}, txt \in Payload : QueryPeers(n, txt)
  \/ \E q \in Qid : QuerySend(q)
  \/ \E q \in Qid : QueryDone(q)
  \/ \E q \in Qid : QueryTimeout(q)

SpecOrder == InitOrder /\ [][NextOrder]_vars

\* The messaging layer over the full mesh when a query can arrive malformed
\* and links can fail.
NextMalformed ==
  \/ \E c \in Conn, s \in Side : PeerReader(c, s)
  \/ \E c \in Conn, s \in Side : CallbackReturns(c, s)
  \/ \E n \in Node, txt \in Payload : FirstQueryPeers(n, txt)
  \/ \E q \in Qid : QuerySend(q)
  \/ \E q \in Qid : QueryDone(q)
  \/ \E q \in Qid : QueryTimeout(q)
  \/ \E c \in Conn : Drop(c)
  \/ \E c \in Conn, s \in Side : TamperQuery(c, s)

SpecMalformed == InitMesh /\ [][NextMalformed]_vars

\* A line A - B - C: B dialled A, C dialled B, so that C is two hops from A.
\* Every callback answers with its node's name.  No fault; every task that
\* can run is eventually run.
LineLinks == <<[ini |-> "B", acc |-> "A"], [ini |-> "C", acc |-> "B"]>>

OwnName == [n \in Node |-> n]

InitLine == Linked(LineLinks, OwnName)

NextLine ==
  \/ \E c \in Conn, s \in Side : PeerReader(c, s)
  \/ \E c \in Conn, s \in Side : CallbackReturns(c, s)
  \/ \E n \in {"A", "B", "C"}, txt \in Payload : FirstQueryPeers(n, txt)
  \/ \E q \in Qid : QuerySend(q)
  \/ \E q \in Qid : QueryDone(q)
  \/ \E q \in Qid : QueryTimeout(q)

SpecLine == InitLine /\ [][NextLine]_vars /\ FairMesh

\* ----------------------------------------------------------------- properties
\* The address node n knows the far end of its connection d by.
PeerAddr(n, d) == remote_addr[d][SideOf(d, n)]

\* A query message with id q is on its way to some endpoint.
QueryInFlight(q) ==
  \E c \in Conn, s \in Side : \E i \in 1 .. Len(chan[c][s]) :
     chan[c][s][i].type = "query" /\ chan[c][s][i].id = q

\* Both sides of c have completed the handshake and still serve c.
HandshakeComplete(c) == pc[c]["i"] \in Established /\ pc[c]["a"] \in Established

\* No other connection joins the two nodes of c.
Sole(c) ==
  \A d \in Conn \ {c} : {conn[d].ini, conn[d].acc} # {conn[c].ini, conn[c].acc}

\* C1: a node invokes its answer callback at most once for a query id,
\* however many peers deliver that id to it and in whatever order.
DedupAtMostOnce == \A n \in Node, q \in Qid : cbCount[n][q] <= 1

\* C1 witness: a node answered a query id once and discarded a second
\* delivery of it.
DedupWitness ==
  \E n \in Node, q \in Qid : cbCount[n][q] = 1 /\ <<n, q>> \in dupSeen

\* C2: over the full mesh A-B-C, once A has broadcast a query the system
\* reaches, and stays in, a state where no copy of the query is in flight or
\* still to be sent and B and C have each invoked their callback exactly once.
LoopSafety ==
  <>[](\A q \in Qid : call[q].pc # "idle" =>
          /\ ~QueryInFlight(q)
          /\ call[q].todo = {}
          /\ cbCount["B"][q] = 1
          /\ cbCount["C"][q] = 1)

\* C2 witness: A's query went round the cycle: B and C each answered once,
\* each discarded the copy the other forwarded, and nothing is in flight.
LoopSafetyWitness ==
  \E q \in Qid :
     /\ call[q].node = "A" /\ call[q].pc # "idle" /\ call[q].todo = {}
     /\ ~QueryInFlight(q)
     /\ cbCount["B"][q] = 1 /\ cbCount["C"][q] = 1
     /\ <<"B", q>> \in dupSeen /\ <<"C", q>> \in dupSeen

ZeroPeersImmediate ==
  [][\A q \in Qid :
       (call[q].pc = "idle" /\ call'[q].pc # "idle" /\ Writers(call'[q].node) = {})
       => /\ call'[q].pc = "done" /\ call'[q].result = <<>> /\ ~call'[q].timedOut
          /\ UNCHANGED <<pending_queries, processed_queries, peers, conn, up,
                         chan, pc>>]_vars

\* C4 witness: a call on a node without peers has returned.
ZeroPeersWitness ==
  \E q \in Qid :
     /\ call[q].node \in Node /\ call[q].pc = "done" /\ call[q].npeers = 0
     /\ call[q].result = <<>> /\ ~pending_queries[call[q].node][q].live

\* C5: every response a node sends goes to the writer registered under the
\* address of the peer the query arrived from, and to no other writer.
ResponseRouting ==
  /\ \A r \in respSent : PeerAddr(r.node, r.conn) = PeerAddr(r.node, r.from)
  /\ \A r1, r2 \in respSent :
        r1.node = r2.node /\ r1.id = r2.id => r1.conn = r2.conn

\* C5 witness: a node with another registered peer has sent a response.
ResponseRoutingWitness ==
  \E r \in respSent : Cardinality(Writers(r.node)) >= 2

\* C6: when both sides have completed the handshake on the only connection
\* between two nodes, each registry maps the other node's address to that
\* connection.
HandshakeRegisters ==
  \A c \in Conn :
     HandshakeComplete(c) /\ Sole(c)
     => /\ peers[conn[c].ini][Address(conn[c].acc)] = c
        /\ peers[conn[c].acc][Address(conn[c].ini)] = c

\* C6 witness: a handshake has completed on both sides.
HandshakeRegistersWitness == \E c \in Conn : HandshakeComplete(c) /\ Sole(c)

\* C7: when a handshake met a fault (a tampered line or a dropped link while
\* a side was still in the handshake) and both sides have finished with the
\* connection, no registry entry of either node maps to it.
HandshakeDeviationClean ==
  \A c \in Conn :
     (deviated[c] /\ pc[c]["i"] \in Finished /\ pc[c]["a"] \in Finished)
     => \A a \in Node : peers[conn[c].ini][a] # c /\ peers[conn[c].acc][a] # c

\* C7 witness: the link failed after the acceptor had sent its verack and
\* registered the peer; both sides have finished.
HandshakeDeviationWitness ==
  \E c \in Conn :
     /\ deviated[c] /\ everReg[c]["a"] /\ ~everReg[c]["i"]
     /\ pc[c]["i"] \in Finished /\ pc[c]["a"] \in Finished

PendingRemoved ==
  \A q \in Qid :
     /\ call[q].pc \in {"sending", "waiting"} => pending_queries[call[q].node][q].live
     /\ call[q].pc = "done" => \A n \in Node : ~pending_queries[n][q].live

\* C9 witness: a call that created an entry has returned by timeout with a
\* partial result.
PendingRemovedWitness ==
  \E q \in Qid :
     /\ call[q].pc = "done" /\ call[q].npeers > 0
     /\ call[q].timedOut /\ Len(call[q].result) >= 1

\* C10: when the reader of a connection ends, the peer leaves the registry
\* and every pending query that was sent on the connection and has no reply
\* from it has its remaining counter decremented.
DisconnectDecrements ==
  [][\A c \in Conn, s \in Side :
       (pc[c][s] = "reader" /\ pc'[c][s] = "closed")
       => /\ \A a \in Node : peers'[EndNode(c, s)][a] # c
          /\ \A q \in Qid :
               (/\ pending_queries[EndNode(c, s)][q].live
                /\ c \in call[q].sent \ call[q].replied)
               => pending_queries'[EndNode(c, s)][q].remaining
                    = pending_queries[EndNode(c, s)][q].remaining - 1]_vars

\* The endpoint of connection d that node n writes to.
Far(d, n) == Other(SideOf(d, n))

\* The writers node n has registered under a key other than addr, as a
\* dictionary walk finds them.
OtherWriters(n, addr) == {d \in Conn : \E a \in Node : a # addr /\ peers[n][a] = d}

\* Line m is queued for endpoint t of connection d.
Queued(d, t, m) == \E i \in 1 .. Len(chan[d][t]) : chan[d][t][i] = m

\* C11: at a node whose callback raises, the query has been forwarded to the
\* other registered peers by the time the callback is invoked; when the
\* callback has failed the response written to the sender carries the error
\* marker, the reader of the connection goes on reading and the registry is
\* unchanged.
CallbackFailure ==
  [][\A c \in Conn, s \in Side :
       LET n == EndNode(c, s)
           sender == remote_addr[c][s]
       IN on_query[n] = "raise" =>
          /\ (pc[c][s] = "reader" /\ pc'[c][s] = "callback")
             => \A d \in OtherWriters(n, sender) :
                   up[d] => chan'[d][Far(d, n)]
                              = Append(chan[d][Far(d, n)], Head(chan[c][s]))
          /\ (pc[c][s] = "callback" /\ pc'[c][s] # "callback")
             => /\ pc'[c][s] = "reader"
                /\ peers' = peers
                /\ \A d \in Conn :
                      (peers[n][sender] = d /\ up[d])
                      => chan'[d][Far(d, n)]
                           = Append(chan[d][Far(d, n)],
                                    ResponseMsg(cur[c][s].id, n, "error"))]_vars

\* C11 witness: a node with two registered peers whose callback raised has
\* its error response on the way to the sender, its forwarded copy of the
\* query on the way to the other peer, and is reading again.
CallbackFailureWitness ==
  \E r \in respSent :
     /\ on_query[r.node] = "raise"
     /\ Queued(r.conn, Far(r.conn, r.node), ResponseMsg(r.id, r.node, "error"))
     /\ pc[r.from][SideOf(r.from, r.node)] = "reader"
     /\ peers[r.node][PeerAddr(r.node, r.from)] = r.from
     /\ \E d \in Writers(r.node) \ {r.from} :
           \E i \in 1 .. Len(chan[d][Far(d, r.node)]) :
              chan[d][Far(d, r.node)][i].type = "query"

\* C12: every bootstrap entry of every node is eventually tried or, when
\* malformed, skipped, whatever became of the entries before it; skipping a
\* malformed entry changes nothing else; and a node's listener takes every
\* connection opened to it, whatever the state of the node's own start-up.
StartupSkips ==
  /\ \A n \in Node : <>(bootstrap_peers[n] = <<>>)
  /\ [][\A n \in Node :
          (/\ bootstrap_peers[n] # <<>> /\ Head(bootstrap_peers[n]) \notin Node
           /\ bootstrap_peers'[n] # bootstrap_peers[n])
          => /\ bootstrap_peers'[n] = Tail(bootstrap_peers[n])
             /\ UNCHANGED <<peers, conn, up, chan, pc>>]_vars
  /\ [][\A c \in Conn :
          (conn[c] = NoEndpoints /\ conn'[c] # NoEndpoints)
          => /\ pc'[c]["a"] = "wait_version"
             /\ chan'[c]["a"] = <<VersionMsg(conn'[c].ini)>>]_vars

\* C12 witness: B's first connection failed in the handshake, B went on to
\* its next entry and completed that handshake, and B's listener has taken
\* C's connection meanwhile.
StartupSkipsWitness ==
  \E c1, c2, c3 \in Conn :
     /\ c1 < c2
     /\ conn[c1].ini = "B" /\ deviated[c1] /\ pc[c1]["i"] \in Finished
     /\ conn[c2].ini = "B" /\ pc[c2]["i"] = "reader"
     /\ conn[c3].acc = "B" /\ pc[c3]["a"] = "reader"
     /\ bootstrap_peers["B"] = <<>>

\* The keys of node n's registry: len(self.peers) is their number.
PeerKeys(n) == {a \in Node : peers[n][a] # NoConn}

\* C13: the remaining counter of a pending query starts at the number of
\* peers registered when the query is broadcast, never increases while the
\* entry exists, and is never below 0 nor above its initial value.
RemainingBounded ==
  /\ [](\A n \in Node, q \in Qid :
          pending_queries[n][q].live
          => /\ pending_queries[n][q].remaining >= 0
             /\ pending_queries[n][q].remaining <= call[q].npeers)
  /\ [][\A n \in Node, q \in Qid :
          /\ (~pending_queries[n][q].live /\ pending_queries'[n][q].live)
             => /\ pending_queries'[n][q].remaining = Cardinality(PeerKeys(n))
                /\ call'[q].npeers = Cardinality(PeerKeys(n))
          /\ (pending_queries[n][q].live /\ pending_queries'[n][q].live)
             => pending_queries'[n][q].remaining <= pending_queries[n][q].remaining]_vars

\* C13 witness: a counter that started at 3 has come down to 0 through one
\* failed send and two responses.
RemainingBoundedWitness ==
  \E n \in Node, q \in Qid :
     /\ pending_queries[n][q].live /\ call[q].npeers = 3
     /\ pending_queries[n][q].remaining = 0
     /\ call[q].sendFailed = 1 /\ Len(call[q].heard) = 2

\* C14: whenever the remaining counter of a pending query is zero, whether
\* responses, failed sends or both brought it there, its completion event is
\* set, so that the call returns without waiting for the timeout.
CompletionSignalled ==
  \A n \in Node, q \in Qid :
     (pending_queries[n][q].live /\ pending_queries[n][q].remaining = 0)
     => pending_queries[n][q].event

ForwardExceptSender ==
  [][\A c \in Conn, s \in Side :
       (pc[c][s] = "reader" /\ pc'[c][s] = "callback")
       => LET n == EndNode(c, s)
              m == Head(chan[c][s])
              targets == OtherWriters(n, remote_addr[c][s])
          IN /\ m.type = "query"
             /\ \A d \in Conn, t \in Side :
                   LET base == IF <<d, t>> = <<c, s>> THEN Tail(chan[c][s])
                               ELSE chan[d][t]
                   IN chan'[d][t] = IF d \in targets /\ up[d] /\ t = Far(d, n)
                                    THEN Append(base, m) ELSE base
             /\ c \notin targets
             /\ chan'[c][Other(s)] = chan[c][Other(s)]]_vars

\* C16 witness: a node with two registered peers has taken a new query from
\* one of them; its copy is on the way to the other and none is on the way
\* back.
ForwardExceptSenderWitness ==
  \E c \in Conn, s \in Side :
     /\ pc[c][s] = "callback"
     /\ ~Queued(c, Other(s), cur[c][s])
     /\ \E d \in Writers(EndNode(c, s)) \ {c} :
           Queued(d, Far(d, EndNode(c, s)), cur[c][s])

\* C17: when a reader takes a new query and the link to one of the peers it
\* is to be forwarded to is down, the query still goes out to every such
\* peer whose link is up and the callback is still invoked; and when the
\* callback of such a query returns, the response is still written to the
\* writer registered under sender_peer and the reader goes on reading.
ForwardFailureTolerated ==
  [][\A c \in Conn, s \in Side :
       LET n == EndNode(c, s)
           sender == remote_addr[c][s]
           targets == OtherWriters(n, sender)
       IN /\ (/\ pc[c][s] = "reader" /\ pc'[c][s] = "callback"
              /\ \E d \in targets : ~up[d])
             => /\ \A d \in targets :
                      up[d] => chan'[d][Far(d, n)]
                                 = Append(chan[d][Far(d, n)], Head(chan[c][s]))
                /\ cbCount'[n][Head(chan[c][s]).id] = cbCount[n][Head(chan[c][s]).id] + 1
                /\ <<n, Head(chan[c][s]).id>> \in fwdFailed'
          /\ (/\ pc[c][s] = "callback" /\ pc'[c][s] # "callback"
              /\ <<n, cur[c][s].id>> \in fwdFailed)
             => /\ pc'[c][s] = "reader"
                /\ \A d \in Conn :
                      (peers[n][sender] = d /\ up[d])
                      => chan'[d][Far(d, n)]
                           = Append(chan[d][Far(d, n)],
                                    ResponseMsg(cur[c][s].id, n, CallbackResult(n)))]_vars

\* C17 witness: a node could not forward a query to one peer; its copy is on
\* the way to another peer, its callback ran, and its response is on the way
\* to the sender.
ForwardFailureWitness ==
  \E r \in respSent :
     /\ <<r.node, r.id>> \in fwdFailed
     /\ cbCount[r.node][r.id] = 1
     /\ Queued(r.conn, Far(r.conn, r.node), ResponseMsg(r.id, r.node, "pong"))
     /\ \E d \in Writers(r.node) \ {r.conn} :
           /\ up[d]
           /\ \E i \in 1 .. Len(chan[d][Far(d, r.node)]) :
                 chan[d][Far(d, r.node)][i].type = "query"

\* C18: every registry entry maps to a connection whose reader is running at
\* that node; when the reader of an established connection ends, the key of
\* its peer leaves the registry and the stream is closed; and a closed
\* endpoint stays closed, so the close happens once and no entry can map to
\* it afterwards.
RegistryLive ==
  /\ [](\A n \in Node, a \in Node :
          peers[n][a] # NoConn
          => /\ n \in {conn[peers[n][a]].ini, conn[peers[n][a]].acc}
             /\ pc[peers[n][a]][SideOf(peers[n][a], n)] \in Established)
  /\ [][\A c \in Conn, s \in Side :
          /\ (pc[c][s] \in Established /\ pc'[c][s] \notin Established)
             => /\ pc'[c][s] = "closed"
                /\ ~up'[c]
                /\ peers'[EndNode(c, s)][remote_addr[c][s]] = NoConn
          /\ pc[c][s] = "closed" => pc'[c][s] = "closed"]_vars

\* C18 witness: a connection that was registered on both sides has ended on
\* both, and neither registry holds an entry for it.
RegistryLiveWitness ==
  \E c \in Conn :
     /\ everReg[c]["i"] /\ everReg[c]["a"]
     /\ pc[c]["i"] = "closed" /\ pc[c]["a"] = "closed"
     /\ \A n \in Node, a \in Node : peers[n][a] # c

\* a is an initial part of b.
IsPrefix(a, b) == Len(a) <= Len(b) /\ SubSeq(b, 1, Len(a)) = a

\* C19: the queue of lines towards an endpoint only grows at its end, except
\* that the endpoint's reader, and only while it is not waiting for a
\* callback to return and its response to be written, takes the line at its
\* head; the query a reader hands to the callback is that head line.  So the
\* lines of one connection are handled one after the other in the order they
\* arrived.
PerConnectionOrder ==
  [][\A c \in Conn, s \in Side :
       /\ \/ IsPrefix(chan[c][s], chan'[c][s])
          \/ /\ pc[c][s] = "reader"
             /\ chan[c][s] # <<>>
             /\ chan'[c][s] = Tail(chan[c][s])
       /\ (pc[c][s] = "reader" /\ pc'[c][s] = "callback")
          => cur'[c][s] = Head(chan[c][s])
       /\ pc[c][s] = "callback" => IsPrefix(chan[c][s], chan'[c][s])]_vars

\* C19 witness: a reader waits for the callback of one query while the next
\* query of the same peer is queued behind it.
PerConnectionOrderWitness ==
  \E c \in Conn, s \in Side :
     /\ pc[c][s] = "callback"
     /\ chan[c][s] # <<>>
     /\ Head(chan[c][s]).type = "query"
     /\ Head(chan[c][s]).id # cur[c][s].id

\* C20: a call of query_peers that found peers has put its fresh id into the
\* caller's processed set in the step that starts it, in which no line is
\* written yet; from then on the caller never invokes its callback for that
\* id, never sends a response for it, and when one of its readers takes a
\* copy of the query that came back, nothing changes but that reader's queue
\* (nothing is forwarded).
OwnQueryIgnored ==
  /\ [](\A q \in Qid :
          (call[q].pc # "idle" /\ call[q].npeers > 0)
          => /\ q \in processed_queries[call[q].node]
             /\ cbCount[call[q].node][q] = 0
             /\ \A r \in respSent : ~(r.node = call[q].node /\ r.id = q))
  /\ [][\A q \in Qid :
          (call[q].pc = "idle" /\ call'[q].pc = "sending")
          => q \in processed_queries'[call'[q].node] /\ chan' = chan]_vars
  /\ [][\A c \in Conn, s \in Side :
          (/\ pc[c][s] = "reader" /\ chan[c][s] # <<>>
           /\ Head(chan[c][s]).type = "query"
           /\ call[Head(chan[c][s]).id].node = EndNode(c, s)
           /\ chan'[c][s] = Tail(chan[c][s]))
          => \/ /\ UNCHANGED <<pc, peers, pending_queries, processed_queries, cbCount>>
                /\ \A d \in Conn, t \in Side :
                      <<d, t>> # <<c, s>> => chan'[d][t] = chan[d][t]
             \/ ~up[c] /\ pc'[c][s] = "closed"]_vars

\* C20 witness: the caller's own query came back to it over the cycle and
\* was discarded; the caller never ran its callback for it.
OwnQueryWitness ==
  \E q \in Qid :
     /\ call[q].npeers > 0
     /\ <<call[q].node, q>> \in dupSeen
     /\ cbCount[call[q].node][q] = 0

\* C21: when a reader takes a query whose id or payload is missing or not a
\* string, nothing changes but the reader's own queue: the processed set is
\* as before, no other queue grows (nothing is forwarded, no response is
\* sent), no callback is invoked, and the reader goes on reading.  (On a
\* failed link the read may instead meet the end of the stream, which closes
\* the connection.)
MalformedQueryDiscarded ==
  [][\A c \in Conn, s \in Side :
       (/\ pc[c][s] = "reader" /\ chan[c][s] # <<>>
        /\ Head(chan[c][s]).type = "query"
        /\ (Head(chan[c][s]).id = 0 \/ Head(chan[c][s]).payload = NonString)
        /\ chan'[c][s] = Tail(chan[c][s]))
       => \/ /\ UNCHANGED <<processed_queries, pending_queries, peers, pc, up,
                             cbCount, respSent>>
             /\ \A d \in Conn, t \in Side :
                   <<d, t>> # <<c, s>> => chan'[d][t] = chan[d][t]
          \/ ~up[c] /\ pc'[c][s] = "closed"]_vars

\* C21 witness: a query sent over a link that is still up has been taken by
\* the peer's reader, which reads on, and the peer has neither marked the
\* id nor run its callback for it: the query was discarded as malformed.
MalformedQueryWitness ==
  \E q \in Qid : \E c \in call[q].sent :
     LET n == call[q].node
         t == Far(c, n)
     IN /\ up[c] /\ faults = 1
        /\ chan[c][t] = <<>>
        /\ pc[c][t] = "reader"
        /\ q \notin processed_queries[EndNode(c, t)]
        /\ cbCount[EndNode(c, t)][q] = 0

\* No line is queued anywhere and no callback is awaited.
Quiet ==
  /\ \A c \in Conn, s \in Side : chan[c][s] = <<>>
  /\ \A c \in Conn, s \in Side : pc[c][s] # "callback"

\* The peers the caller of q sent the query to.
Asked(q) == {EndNode(c, Far(c, call[q].node)) : c \in call[q].sent}

\* C22: once a node that is not a peer of the caller has answered a query
\* and every line has been delivered and handled, the caller, still waiting,
\* has received that node's answer.
RelayReachesOriginator ==
  \A q \in Qid : \A r \in respSent :
     (/\ r.id = q /\ call[q].pc = "waiting"
      /\ r.node # call[q].node /\ r.node \notin Asked(q)
      /\ Quiet)
     => \E i \in 1 .. Len(call[q].heard) : call[q].heard[i] = CallbackResult(r.node)

\* C23: when the reader of an established connection ends, every registry
\* entry of its node that maps to another connection is left as it was.
CloseKeepsOtherEntries ==
  [][\A c \in Conn, s \in Side :
       (pc[c][s] \in Established /\ pc'[c][s] = "closed")
       => \A a \in Node :
             (peers[EndNode(c, s)][a] # NoConn /\ peers[EndNode(c, s)][a] # c)
             => peers'[EndNode(c, s)][a] = peers[EndNode(c, s)][a]]_vars

\* C24: in the mesh, where every peer stays connected, once the broadcaster
\* has sent the query to every registered peer, each of them has run its
\* callback on it and every line has been delivered and handled, the
\* broadcaster's wait is over with one response per registered peer: the
\* call never has to wait for the timeout.
BroadcastCompletes ==
  \A q \in Qid :
     (/\ call[q].pc = "waiting" /\ call[q].sendFailed = 0
      /\ Cardinality(Asked(q)) = call[q].npeers
      /\ \A p \in Asked(q) : cbCount[p][q] = 1 /\ peers[call[q].node][p] # NoConn
      /\ Quiet)
     => /\ pending_queries[call[q].node][q].event
        /\ Len(pending_queries[call[q].node][q].responses) = call[q].npeers

=============================================================================
